---- MODULE Spec2Model ----
(***************************************************************************)
(* Model of crates/swift-bridge-ir/src/parsed_extern_fn/                   *)
(* to_rust_impl_call_swift.rs: ParsedExternFn::to_impl_fn_calls_swift and  *)
(* its helper params_without_self_type_removd.                             *)
(*                                                                         *)
(* A TokenStream is a sequence of token strings.  A ParsedExternFn is a    *)
(* record holding the parsed signature (name, inputs, output), the         *)
(* associated type and the `init` attribute.  The generator is a pure      *)
(* function of the declaration; the one action applies it.                 *)
(***************************************************************************)
EXTENDS Naturals, Sequences, FiniteSets

VARIABLES func, pc, tokens

vars == <<func, pc, tokens>>

(***************************************************************************)
(* Bounds and input alphabets.                                             *)
(***************************************************************************)
\* Longest parameter list drawn for a declaration.
MaxParams == 2

\* Types declared with `type X;` in the extern "Swift" block.
DeclaredTypes == {"Foo", "Bar"}

\* A type name that is neither built in nor declared.
UndeclaredTypes == {"Baz"}

\* The type the declarations are associated to (`type Foo;` of the tests).
AssociatedTypes == {"Foo"}

FnNames == {"new", "message"}

ParamNames == {"_foo", "arg"}

ParamElems == {"Foo", "Bar", "u8", "str"}

(***************************************************************************)
(* syn's syntax tree, as far as the generator reads it.                    *)
(***************************************************************************)
\* syn::Type: a path type `elem`, or a syn::TypeReference `& [mut] elem`.
MkType(and_token, mutability, elem) ==
    [and_token |-> and_token, mutability |-> mutability, elem |-> elem]

RefShapes == {<<FALSE, FALSE>>, <<TRUE, FALSE>>, <<TRUE, TRUE>>}

ParamTypes == {MkType(s[1], s[2], e) : s \in RefShapes, e \in ParamElems}

\* syn::FnArg::Receiver: `self`, `&self`, `&mut self`.
Receiver(and_token, mutability) ==
    [kind |-> "Receiver", pat |-> "self", ty |-> MkType(and_token, mutability, "Self")]

\* syn::FnArg::Typed: `pat: ty`.
Typed(pat, ty) == [kind |-> "Typed", pat |-> pat, ty |-> ty]

Receivers == {Receiver(s[1], s[2]) : s \in RefShapes}

TypedSelfArgs == {Typed("self", t) : t \in ParamTypes}

OrdinaryArgs == {Typed(p, t) : p \in ParamNames, t \in ParamTypes}

\* syn::ReturnType: Default (nothing written) or `-> ty`.
ReturnDefault == [arrow |-> FALSE, ty |-> MkType(FALSE, FALSE, "()")]

ReturnTy(ty) == [arrow |-> TRUE, ty |-> ty]

ReturnTypes ==
    {ReturnDefault,
     ReturnTy(MkType(FALSE, FALSE, "u8")),
     ReturnTy(MkType(TRUE, FALSE, "str")),
     ReturnTy(MkType(TRUE, FALSE, "[u8]"))}
    \cup {ReturnTy(MkType(FALSE, FALSE, t)) : t \in DeclaredTypes \cup UndeclaredTypes}

\* Parameter lists: a self parameter (bare or typed) can only come first.
RECURSIVE OrdinaryLists(_)
OrdinaryLists(n) ==
    IF n = 0 THEN {<<>>}
    ELSE {<<>>} \cup {<<a>> \o l : a \in OrdinaryArgs, l \in OrdinaryLists(n - 1)}

FirstArgs == Receivers \cup TypedSelfArgs \cup OrdinaryArgs

ParamLists(n) ==
    IF n = 0 THEN {<<>>}
    ELSE {<<>>} \cup {<<a>> \o l : a \in FirstArgs, l \in OrdinaryLists(n - 1)}

\* ParsedExternFn values handed to the generator (associated_type is Some).
ParsedExternFns ==
    [ident : FnNames,
     inputs : ParamLists(MaxParams),
     output : ReturnTypes,
     associated_type : AssociatedTypes,
     is_initializer : BOOLEAN]

(***************************************************************************)
(* quote!: syntax tree to tokens.                                          *)
(***************************************************************************)
NoTokens == <<>>

ElemTokens(elem) == IF elem = "[u8]" THEN <<"[", "u8", "]">> ELSE <<elem>>

RefTokens(ty) ==
    (IF ty.and_token THEN <<"&">> ELSE <<>>) \o (IF ty.mutability THEN <<"mut">> ELSE <<>>)

TypeTokens(ty) == RefTokens(ty) \o ElemTokens(ty.elem)

FnArgTokens(arg) ==
    IF arg.kind = "Receiver"
    THEN RefTokens(arg.ty) \o <<"self">>
    ELSE <<arg.pat, ":">> \o TypeTokens(arg.ty)

ReturnTokens(ret) == IF ret.arrow THEN <<"->">> \o TypeTokens(ret.ty) ELSE <<>>

\* `#(#items),*`
RECURSIVE JoinComma(_)
JoinComma(items) ==
    IF Len(items) = 0 THEN <<>>
    ELSE IF Len(items) = 1 THEN items[1]
    ELSE items[1] \o <<",">> \o JoinComma(Tail(items))

(***************************************************************************)
(* Receiver detection.                                                     *)
(***************************************************************************)
Some(x) == <<x>>

None == <<>>

\* crate::pat_type_pat_is_self: the pattern is the identifier `self`.
pat_type_pat_is_self(pat_ty) == pat_ty.pat = "self"

\* Variant: only an immutable reference is recognised as a reference.
pat_ty_type_reference_immutable_only(pat_ty) ==
    IF pat_ty.ty.and_token /\ ~pat_ty.ty.mutability THEN Some(pat_ty.ty) ELSE None

pat_ty_type_reference(pat_ty) ==
    IF pat_ty.ty.and_token THEN Some(pat_ty.ty) ELSE None

\* Variant: the receiver is detected by its reference type, not by its name.
pat_ty_type_reference_of_any_arg(fn_arg) ==
    IF fn_arg.kind = "Typed" /\ fn_arg.ty.and_token THEN Some(fn_arg.ty) ELSE None

pat_ty_type_reference_if_arg_self(fn_arg) ==
    IF fn_arg.kind = "Typed" /\ pat_type_pat_is_self(fn_arg)
    THEN pat_ty_type_reference(fn_arg)
    ELSE None

\* Variant: a bare receiver is re-emitted as `self`, losing `&` and `mut`.
param_without_self_type_bare_self(arg) ==
    LET reference == pat_ty_type_reference_if_arg_self(arg)
    IN  IF reference # None
        THEN RefTokens(reference[1]) \o <<"self">>
        ELSE IF arg.kind = "Receiver" THEN <<"self">>
        ELSE FnArgTokens(arg)

\* The tokens emitted for one parameter (the closure of the map).
param_without_self_type(arg) ==
    LET reference == pat_ty_type_reference_if_arg_self(arg)
    IN  IF reference # None
        THEN RefTokens(reference[1]) \o <<"self">>
        ELSE FnArgTokens(arg)

\* The Vec<TokenStream> collected before the final join.
params_vec(inputs) == [i \in DOMAIN inputs |-> param_without_self_type(inputs[i])]

params_without_self_type_removd(f) == JoinComma(params_vec(f.inputs))

(***************************************************************************)
(* Collaborators of the generator that live in other files of the crate.   *)
(***************************************************************************)
\* The path the generated code uses for the swift_bridge crate.
swift_bridge_path == <<"swift_bridge">>

\* ParsedExternFn::extern_swift_linked_fn_new: __swift_bridge__<Type>_<fn>.
extern_swift_linked_fn_new(f) ==
    "__swift_bridge__" \o f.associated_type \o "_" \o f.ident

\* BuiltInType::with_return_type: the built-in kind of a return type, if any.
\* A missing return type is the built-in unit kind.
with_return_type(ret) ==
    IF ~ret.arrow THEN Some("Null")
    ELSE IF ret.ty = MkType(FALSE, FALSE, "u8") THEN Some("U8")
    ELSE IF ret.ty = MkType(TRUE, FALSE, "str") THEN Some("RefStr")
    ELSE IF ret.ty = MkType(TRUE, FALSE, "[u8]") THEN Some("RefSlice")
    ELSE None

\* BuiltInType::wrap_swift_to_rust_arg_ffi_friendly: the return-position
\* conversion of a built-in kind, applied to the expression `value`.
wrap_swift_to_rust_arg_ffi_friendly(built_in, value) ==
    IF built_in = "RefSlice" THEN value \o <<".", "as_slice", "(", ")">>
    ELSE IF built_in = "RefStr" THEN value \o <<".", "to_str", "(", ")">>
    ELSE value

\* One call argument: the receiver's raw handle, or the marshalled parameter.
call_rust_arg(arg) ==
    IF arg.kind = "Receiver" \/ pat_type_pat_is_self(arg)
    THEN <<"self", ".", "0">>
    ELSE IF arg.ty = MkType(TRUE, FALSE, "str")
    THEN swift_bridge_path \o <<"::", "string", "::", "RustStr", "::", "from_str", "(">>
         \o <<arg.pat>> \o <<")">>
    ELSE <<arg.pat>>

\* ParsedExternFn::to_call_rust_args
to_call_rust_args(f) ==
    JoinComma([i \in DOMAIN f.inputs |-> call_rust_arg(f.inputs[i])])

(***************************************************************************)
(* ParsedExternFn::to_impl_fn_calls_swift                                  *)
(***************************************************************************)
\* Variant: the external symbol is called without the call arguments.
unsafe_call_without_args(f) ==
    <<"unsafe", "{", extern_swift_linked_fn_new(f), "(", ")", "}">>

\* let mut inner = quote! { unsafe { #linked_fn_name(#call_args) } };
unsafe_call(f) ==
    <<"unsafe", "{", extern_swift_linked_fn_new(f), "(">>
    \o to_call_rust_args(f) \o <<")", "}">>

\* Variant: a return type that is not built in leaves the raw call unwrapped.
wrap_inner_built_in_only(f, inner) ==
    LET built_in == with_return_type(f.output)
    IN  IF built_in # None
        THEN wrap_swift_to_rust_arg_ffi_friendly(built_in[1], inner)
        ELSE inner

\* Variant: the constructor is applied whatever the return type is.
wrap_inner_always_ctor(f, inner) ==
    <<f.associated_type, "(">> \o inner \o <<")">>

\* if let Some(built_in) = ... { built-in conversion } else { #ty_name(#inner) }
wrap_inner(f, inner) ==
    LET built_in == with_return_type(f.output)
        ty_name == f.associated_type
    IN  IF built_in # None
        THEN wrap_swift_to_rust_arg_ffi_friendly(built_in[1], inner)
        ELSE <<ty_name, "(">> \o inner \o <<")">>

\* Variant: the return value is marshalled inside the unsafe block.
to_impl_fn_calls_swift_wrap_inside(f) ==
    <<"pub", "fn", f.ident, "(">> \o params_without_self_type_removd(f) \o <<")">>
    \o ReturnTokens(f.output)
    \o <<"{", "unsafe", "{">>
    \o wrap_inner(f, <<extern_swift_linked_fn_new(f), "(">> \o to_call_rust_args(f) \o <<")">>)
    \o <<"}", "}">>

to_impl_fn_calls_swift(f) ==
    <<"pub", "fn", f.ident, "(">> \o params_without_self_type_removd(f) \o <<")">>
    \o ReturnTokens(f.output)
    \o <<"{">> \o wrap_inner(f, unsafe_call(f)) \o <<"}">>

(***************************************************************************)
(* The state machine: one declaration, translated once.                    *)
(***************************************************************************)
Init ==
    /\ func \in ParsedExternFns
    /\ pc = "parsed"
    /\ tokens = NoTokens

ToImplFnCallsSwift ==
    /\ pc = "parsed"
    /\ tokens' = to_impl_fn_calls_swift(func)
    /\ pc' = "generated"
    /\ UNCHANGED func

Next == ToImplFnCallsSwift

Spec == Init /\ [][Next]_vars

(***************************************************************************)
(* Reading the emitted wrapper back.                                       *)
(***************************************************************************)
Count(toks, t) == Cardinality({i \in DOMAIN toks : toks[i] = t})

\* Index of the first occurrence of t in toks, 0 when there is none.
IndexOf(toks, t) ==
    IF \E i \in DOMAIN toks : toks[i] = t
    THEN CHOOSE i \in DOMAIN toks :
            toks[i] = t /\ \A j \in DOMAIN toks : toks[j] = t => i <= j
    ELSE 0

\* Split a token sequence at its commas.
RECURSIVE SplitComma(_)
SplitComma(toks) ==
    IF Len(toks) = 0 THEN <<>>
    ELSE LET c == IndexOf(toks, ",")
         IN  IF c = 0 THEN <<toks>>
             ELSE <<SubSeq(toks, 1, c - 1)>> \o SplitComma(SubSeq(toks, c + 1, Len(toks)))

Emitted == pc = "generated" /\ tokens # NoTokens

\* `pub fn name ( params ) [-> ty]` : everything before the body's brace.
SigOf(toks) == SubSeq(toks, 1, IndexOf(toks, "{") - 1)

\* The body between the function's braces.
BodyOf(toks) == SubSeq(toks, IndexOf(toks, "{") + 1, Len(toks) - 1)

\* The parameters of the emitted signature, one token sequence each.
ParamsOf(toks) == SplitComma(SubSeq(toks, 5, IndexOf(toks, ")") - 1))

\* `unsafe { callee ( args ) }` as it stands in the body.
UnsafeStart(body) == IndexOf(body, "unsafe")

UnsafeEnd(body) == IndexOf(body, "}")

UnsafeBlockOf(body) == SubSeq(body, UnsafeStart(body), UnsafeEnd(body))

BeforeUnsafe(body) == SubSeq(body, 1, UnsafeStart(body) - 1)

AfterUnsafe(body) == SubSeq(body, UnsafeEnd(body) + 1, Len(body))

\* The arguments of the external call, one token sequence each.
CallArgsOf(body) ==
    SplitComma(SubSeq(body, UnsafeStart(body) + 4, UnsafeEnd(body) - 2))

\* syn parsing one parameter's tokens back into a FnArg.
ParseType(toks) ==
    LET and_token == toks[1] = "&"
        mutability == and_token /\ toks[2] = "mut"
        rest == SubSeq(toks, 1 + (IF and_token THEN 1 ELSE 0) + (IF mutability THEN 1 ELSE 0),
                       Len(toks))
    IN  MkType(and_token, mutability, IF rest[1] = "[" THEN "[u8]" ELSE rest[1])

ParseFnArg(toks) ==
    IF toks[Len(toks)] = "self" /\ Count(toks, ":") = 0
    THEN Receiver(toks[1] = "&", Count(toks, "mut") = 1)
    ELSE Typed(toks[1], ParseType(SubSeq(toks, 3, Len(toks))))

SelfHandle == <<"self", ".", "0">>

IsTypedSelf(arg) == arg.kind = "Typed" /\ arg.pat = "self"

HasReceiver(f) ==
    Len(f.inputs) > 0 /\ (f.inputs[1].kind = "Receiver" \/ IsTypedSelf(f.inputs[1]))

HasTypedSelf(f) == Len(f.inputs) > 0 /\ IsTypedSelf(f.inputs[1])

AssocTy(f, and_token, mutability) == MkType(and_token, mutability, f.associated_type)

\* The receiver types the data model allows: Foo, &Foo, &mut Foo.
WellFormedReceiverTypes(f) == {AssocTy(f, s[1], s[2]) : s \in RefShapes}

IsOpaqueReturn(f) ==
    f.output.arrow /\ ~f.output.ty.and_token /\ f.output.ty.elem \in DeclaredTypes

IsUnclassifiedReturn(f) ==
    f.output.arrow /\ f.output.ty.elem \in UndeclaredTypes

\* The body is `name ( unsafe { ... } )`.
WrappedInCtor(body, name) ==
    /\ BeforeUnsafe(body) = <<name, "(">>
    /\ AfterUnsafe(body) = <<")">>

(***************************************************************************)
(* Claims.                                                                 *)
(***************************************************************************)

\* C1: a first parameter `self: &Foo` is emitted as `&self`, `self: &mut Foo`
\* as `&mut self` and `self: Foo` as `self`; in all three cases the emitted
\* parameter carries no type annotation.
C1_TypedSelfBecomesBareReceiver ==
    (Emitted /\ HasTypedSelf(func)
        /\ func.inputs[1].ty \in WellFormedReceiverTypes(func))
    => /\ ParamsOf(tokens)[1] = RefTokens(func.inputs[1].ty) \o <<"self">>
       /\ Count(ParamsOf(tokens)[1], ":") = 0

C1_Witness ==
    /\ Emitted
    /\ HasTypedSelf(func)
    /\ func.inputs[1].ty = AssocTy(func, FALSE, FALSE)
    /\ ParamsOf(tokens)[1] = <<"self", ":", func.associated_type>>

\* C2: an initializer on Foo, with its return type written as Foo or left
\* out, gets a body that wraps the unsafe call in `Foo( ... )`.
C2_InitializerWrappedInAssociatedType ==
    (Emitted /\ func.is_initializer
        /\ func.output \in {ReturnDefault, ReturnTy(AssocTy(func, FALSE, FALSE))})
    => WrappedInCtor(BodyOf(tokens), func.associated_type)

\* C3: a declaration returning the opaque type T gets a body that wraps the
\* unsafe call in `T( ... )`, whatever type the function is associated to.
C3_OpaqueReturnWrappedInReturnedType ==
    (Emitted /\ IsOpaqueReturn(func))
    => WrappedInCtor(BodyOf(tokens), func.output.ty.elem)

\* C4: the external call's arguments are `self.0` first exactly when the
\* declaration has a receiver, then one argument per other parameter, in
\* declaration order, each built from that parameter's name.
C4_CallArgsReceiverThenParams ==
    Emitted =>
        LET args == CallArgsOf(BodyOf(tokens))
            off == IF HasReceiver(func) THEN 1 ELSE 0
        IN  /\ Len(args) = Len(func.inputs)
            /\ HasReceiver(func) => args[1] = SelfHandle
            /\ ~HasReceiver(func) => \A i \in DOMAIN args : args[i] # SelfHandle
            /\ \A i \in DOMAIN func.inputs :
                  i > off =>
                     /\ Count(args[i], func.inputs[i].pat) = 1
                     /\ \A j \in DOMAIN func.inputs :
                           (j > off /\ func.inputs[j].pat # func.inputs[i].pat)
                           => Count(args[i], func.inputs[j].pat) = 0
                     /\ args[i] # SelfHandle

C4_Witness ==
    /\ Emitted
    /\ Len(func.inputs) = 2
    /\ func.inputs[1].kind = "Receiver"
    /\ func.inputs[2].ty = MkType(TRUE, FALSE, "str")
    /\ Len(CallArgsOf(BodyOf(tokens))) = 2
    /\ CallArgsOf(BodyOf(tokens))[1] = SelfHandle

C7_NonReceiverParamsUnchanged ==
    Emitted =>
        /\ Len(ParamsOf(tokens)) = Len(func.inputs)
        /\ \A i \in DOMAIN func.inputs :
              ~IsTypedSelf(func.inputs[i])
              => ParseFnArg(ParamsOf(tokens)[i]) = func.inputs[i]

C7_Witness ==
    /\ Emitted
    /\ Len(func.inputs) = 2
    /\ IsTypedSelf(func.inputs[1])
    /\ func.inputs[1].ty = AssocTy(func, TRUE, FALSE)
    /\ func.inputs[2] = Typed("_foo", AssocTy(func, TRUE, FALSE))
    /\ ParamsOf(tokens) = <<<<"&", "self">>, <<"_foo", ":", "&", func.associated_type>>>>

\* C8: with no return type written, the body is exactly the unsafe call of
\* the external symbol, with nothing around it, and the signature has no
\* return type.
C8_UnitReturnBodyIsRawCall ==
    (Emitted /\ ~func.output.arrow) =>
        LET body == BodyOf(tokens)
        IN  /\ Count(SigOf(tokens), "->") = 0
            /\ SigOf(tokens)[Len(SigOf(tokens))] = ")"
            /\ Count(body, "unsafe") = 1
            /\ Count(body, "}") = 1
            /\ SubSeq(body, 1, 4)
                 = <<"unsafe", "{", extern_swift_linked_fn_new(func), "(">>
            /\ SubSeq(body, Len(body) - 1, Len(body)) = <<")", "}">>
            /\ Len(CallArgsOf(body)) = Len(func.inputs)

C8_Witness ==
    /\ Emitted
    /\ ~func.output.arrow
    /\ ~func.is_initializer
    /\ func.inputs = <<Typed("arg", MkType(FALSE, FALSE, "u8"))>>
    /\ BodyOf(tokens)
         = <<"unsafe", "{", extern_swift_linked_fn_new(func), "(", "arg", ")", "}">>

\* C9: a bare receiver (`self`, `&self`, `&mut self`) is emitted unchanged,
\* and normalizing the emitted parameter list again gives the same list.
C9_NormalizationIdempotent ==
    Emitted =>
        LET out == ParamsOf(tokens)
            again == [i \in DOMAIN out |-> ParseFnArg(out[i])]
        IN  /\ \A i \in DOMAIN func.inputs :
                  func.inputs[i].kind = "Receiver"
                  => /\ out[i] = FnArgTokens(func.inputs[i])
                     /\ ParseFnArg(out[i]) = func.inputs[i]
            /\ params_vec(again) = out

C9_Witness ==
    /\ Emitted
    /\ Len(func.inputs) = 2
    /\ func.inputs[1] = Receiver(TRUE, TRUE)
    /\ ParamsOf(tokens)[1] = <<"&", "mut", "self">>
    /\ params_vec(<<ParseFnArg(ParamsOf(tokens)[1])>>) = <<<<"&", "mut", "self">>>>

\* C10: the body has exactly one unsafe block, holding only the call of the
\* external symbol; whatever marshals the return value stands outside the
\* block, and a built-in return type gets its conversion and no constructor.
C10_SingleUnsafeBlockMarshalledOutside ==
    Emitted =>
        LET body == BodyOf(tokens)
            block == UnsafeBlockOf(body)
            before == BeforeUnsafe(body)
            after == AfterUnsafe(body)
            built_in == with_return_type(func.output)
        IN  /\ Count(body, "unsafe") = 1
            /\ Count(body, "{") = 1 /\ Count(body, "}") = 1
            /\ SubSeq(block, 1, 4)
                 = <<"unsafe", "{", extern_swift_linked_fn_new(func), "(">>
            /\ SubSeq(block, Len(block) - 1, Len(block)) = <<")", "}">>
            /\ Len(CallArgsOf(body)) = Len(func.inputs)
            /\ \A t \in {"as_slice", "to_str"} \cup DeclaredTypes \cup UndeclaredTypes :
                  Count(block, t) = 0
            /\ built_in # None =>
                  /\ before = <<>>
                  /\ after = wrap_swift_to_rust_arg_ffi_friendly(built_in[1], <<>>)
            /\ built_in = None =>
                  /\ Len(before) = 2 /\ before[2] = "("
                  /\ after = <<")">>

C10_Witness ==
    /\ Emitted
    /\ func.output = ReturnTy(MkType(TRUE, FALSE, "[u8]"))
    /\ func.inputs = <<Receiver(TRUE, FALSE)>>
    /\ BodyOf(tokens)
         = <<"unsafe", "{", extern_swift_linked_fn_new(func), "(", "self", ".", "0", ")", "}",
             ".", "as_slice", "(", ")">>

====
